---- MODULE Spec2Model ----
(***************************************************************************)
(* The syscall marshaling layer of keyutils-raw (functions.rs) on a 64-bit *)
(* Linux target: every wrapper converts its arguments, issues one syscall  *)
(* through the syscall!/keyctl! macros and converts the kernel's long      *)
(* return value into a typed Result.  Spec lets the kernel return any      *)
(* value; KSpec runs the read-style wrappers against keys the kernel       *)
(* holds.                                                                  *)
(*                                                                         *)
(* Integers wider than 31 bits (c_long, usize, u32) are written as a pair  *)
(* <<hi, lo>> standing for hi * Limb + lo with 0 <= lo < Limb, so that the *)
(* 32-bit boundaries the code tests are ordinary values of the model.      *)
(***************************************************************************)
EXTENDS Integers, Sequences, FiniteSets, TLC

VARIABLES op, input, syscalls, errno, result, keys, mem, prev

\* the state of one wrapper invocation as its caller sees it
cvars == <<op, input, syscalls, errno, result>>

\* the kernel's keys, the caller's output buffer, the caller's previous call
kvars == <<keys, mem, prev>>

vars == <<op, input, syscalls, errno, result, keys, mem, prev>>

----------------------------------------------------------------------------
(* Wide integers *)

Limb == 2^30

W(i) == <<i \div Limb, i % Limb>>

WLe(a, b) == a[1] < b[1] \/ (a[1] = b[1] /\ a[2] <= b[2])

WLt(a, b) == WLe(a, b) /\ a # b

ToInt(w) == w[1] * Limb + w[2]

I32_MIN == <<-2, 0>>
I32_MAX == <<1, Limb - 1>>
U32_MAX == <<3, Limb - 1>>
TwoPow32 == <<4, 0>>
TwoPow31 == <<2, 0>>
TwoPow40 == <<1024, 0>>
MinusOne == W(-1)
Zero == W(0)

FitsI32(w) == WLe(I32_MIN, w) /\ WLe(w, I32_MAX)

FitsU32(w) == WLe(Zero, w) /\ WLe(w, U32_MAX)

\* usize is 64 bits wide on the modelled target: every non-negative c_long fits
FitsUsize(w) == WLe(Zero, w)

----------------------------------------------------------------------------
(* Bounds and input domains *)

MaxStrLen == 2

NUL == 0

Bytes == {NUL, 97}

RECURSIVE SeqsUpTo(_, _)
SeqsUpTo(S, n) ==
    IF n = 0 THEN {<<>>}
    ELSE LET shorter == SeqsUpTo(S, n - 1)
         IN shorter \cup {Append(s, b) : s \in {t \in shorter : Len(t) = n - 1}, b \in S}

\* &str arguments: byte strings that may hold an embedded NUL
Strs == SeqsUpTo(Bytes, MaxStrLen)

HasNul(s) == \E i \in 1..Len(s) : s[i] = NUL

None == [some |-> FALSE]
Some(v) == [some |-> TRUE, v |-> v]
Opt(S) == {None} \cup {Some(v) : v \in S}

OptStrs == Opt(Strs)

\* KeyringSerial values: a special keyring, an ordinary key, the largest id
KEY_SPEC_SESSION_KEYRING == -3
Serials == {KEY_SPEC_SESSION_KEYRING, 5}
OptSerials == Opt(Serials)

\* slice and buffer lengths (usize)
Lens == {W(0), W(3), U32_MAX, TwoPow32}

NULL == 0
Addrs == {4096}

\* &[u8] and Out<[u8]>: an address and a length
Slices == {[ptr |-> a, len |-> l] : a \in Addrs, l \in Lens}
OptSlices == Opt(Slices)

\* the permission bits of a key_perm_t, by subject class
KEY_POS_VIEW == 16777216
KEY_POS_READ == 33554432
KEY_POS_WRITE == 67108864
KEY_POS_SEARCH == 134217728
KEY_POS_LINK == 268435456
KEY_POS_SETATTR == 536870912
KEY_POS_ALL == 1056964608

KEY_USR_VIEW == 65536
KEY_USR_READ == 131072
KEY_USR_WRITE == 262144
KEY_USR_SEARCH == 524288
KEY_USR_LINK == 1048576
KEY_USR_SETATTR == 2097152
KEY_USR_ALL == 4128768

KEY_GRP_VIEW == 256
KEY_GRP_READ == 512
KEY_GRP_WRITE == 1024
KEY_GRP_SEARCH == 2048
KEY_GRP_LINK == 4096
KEY_GRP_SETATTR == 8192
\* one bit of the group field dropped from its ALL constant
KEY_GRP_ALL_missing_bit ==
    KEY_GRP_VIEW + KEY_GRP_READ + KEY_GRP_WRITE + KEY_GRP_SEARCH + KEY_GRP_LINK

KEY_GRP_ALL == 16128

KEY_OTH_VIEW == 1
KEY_OTH_READ == 2
KEY_OTH_WRITE == 4
KEY_OTH_SEARCH == 8
KEY_OTH_LINK == 16
KEY_OTH_SETATTR == 32
KEY_OTH_ALL == 63

\* TimeoutSeconds, KeyPermissions, uid_t / gid_t
Timeouts == {0, 10}
Perms == {0, KEY_OTH_ALL, KEY_POS_ALL}
Uids == {W(0), W(1000)}
OptUids == Opt(Uids)

\* values of c_long the kernel may hand back
RetVals == {W(-(2^30)) , <<-1024, 0>>, <<-3, Limb - 1>>, I32_MIN, W(-2), MinusOne,
            Zero, W(1), W(5), W(6), W(7), I32_MAX, TwoPow31, U32_MAX, TwoPow32, TwoPow40}

EINVAL == 22
EKEYREVOKED == 128
Errnos == {EINVAL, EKEYREVOKED}

\* what the kernel answers to one syscall: the return value and, on failure,
\* the error code it stores in errno
KernelOutcomes ==
    {[ret |-> r, err |-> 0] : r \in RetVals \ {MinusOne}}
        \cup {[ret |-> MinusOne, err |-> e] : e \in Errnos}

----------------------------------------------------------------------------
(* Result values *)

Ok(v) == [kind |-> "Ok", val |-> v, src |-> "kernel"]

\* src tells an error read from errno from one made up locally
Err(e, from) == [kind |-> "Err", val |-> e, src |-> from]

Panic(msg) == [kind |-> "Panic", val |-> msg, src |-> "local"]

----------------------------------------------------------------------------
(* Helpers of functions.rs *)

\* a sign test in place of the comparison with the sentinel
check_syscall_negative(res, en) ==
    IF WLt(res, Zero) THEN Err(en, "errno") ELSE Ok(res)

check_syscall(res, en) ==
    IF res = MinusOne THEN Err(en, "errno") ELSE Ok(res)

\* the string cut at its first NUL instead of refused
cstring_truncating(s) ==
    LET first == IF HasNul(s) THEN CHOOSE i \in 1..Len(s) : s[i] = NUL /\ \A j \in 1..(i - 1) : s[j] # NUL
                 ELSE Len(s) + 1
    IN  Ok(Append(SubSeq(s, 1, first - 1), NUL))

\* CString::new fails on an interior NUL and unwrap panics; otherwise the
\* bytes are followed by the terminator
cstring(s) ==
    IF HasNul(s) THEN Panic("NulError") ELSE Ok(Append(s, NUL))

opt_cstring(opt) ==
    IF opt.some
    THEN LET c == cstring(opt.v) IN IF c.kind = "Ok" THEN Ok(Some(c.val)) ELSE c
    ELSE Ok(None)

\* a C string pointer is written as the bytes it points to, null as <<>>
opt_cstring_ptr(opt) == IF opt.some THEN opt.v ELSE <<>>

\* the absent identifier sent as -1
opt_key_serial_minus_one(opt) == IF opt.some THEN opt.v ELSE -1

opt_key_serial(opt) == IF opt.some THEN opt.v ELSE 0

\* the value of the low 32 bits of w read as a signed integer (w as i32)
Wrap32(w) ==
    LET h == w[1] % 4
    IN  IF h >= 2 THEN (h - 4) * Limb + w[2] ELSE h * Limb + w[2]

\* a truncating cast in place of the checked conversions
keyring_serial_truncating(res) == Ok(Wrap32(res))

keyring_serial(res) ==
    IF ~FitsI32(res) THEN Panic("THE_KERNEL_LIED")
    ELSE IF ToInt(res) = 0 THEN Panic("ZERO_KEY_ID_FOUND")
    ELSE Ok(ToInt(res))

size(res) == IF FitsUsize(res) THEN Ok(res) ELSE Panic("BUFFER_OVERFLOW")

\* the return value dropped without the assertion
ignore_lenient(res) == Ok("unit")

ignore(res) == IF res = Zero THEN Ok("unit") ELSE Panic("assert_eq")

safe_len(len) == IF FitsU32(len) THEN Ok(len) ELSE Err(EINVAL, "local")

\* DefaultKeyring and its kernel codes (KEY_REQKEY_DEFL_*)
DefaultKeyrings == {"NoChange", "Default", "Thread", "Process", "Session", "User",
                    "UserSession", "Group"}

DefaultKeyringCode(d) ==
    CASE d = "NoChange" -> -1
      [] d = "Default" -> 0
      [] d = "Thread" -> 1
      [] d = "Process" -> 2
      [] d = "Session" -> 3
      [] d = "User" -> 4
      [] d = "UserSession" -> 5
      [] d = "Group" -> 6

\* TryFrom<c_long> for DefaultKeyring: the selector with that code, or the
\* UnknownDefault error carrying the raw value
DefaultKeyringTryFrom(res) ==
    IF \E d \in DefaultKeyrings : W(DefaultKeyringCode(d)) = res
    THEN Ok(CHOOSE d \in DefaultKeyrings : W(DefaultKeyringCode(d)) = res)
    ELSE Err(res, "UnknownDefault")

\* an unknown code taken for the default selector
default_keyring_lenient(res) ==
    LET conv == DefaultKeyringTryFrom(res)
    IN  IF conv.kind = "Ok" THEN conv ELSE Ok("Default")

\* an unknown code is logged with error! and turned into EINVAL
default_keyring(res) ==
    LET conv == DefaultKeyringTryFrom(res)
    IN  IF conv.kind = "Ok" THEN conv ELSE Err(EINVAL, "local")

\* the closures and functions the wrappers hand to map and and_then
Convert(conv, res) ==
    CASE conv = "keyring_serial" -> keyring_serial(res)
      [] conv = "default_keyring" -> default_keyring(res)
      [] conv = "size" -> size(res)
      [] conv = "ignore" -> ignore(res)
      [] conv = "|res| res == 0" -> Ok(res = Zero)

\* Result::map and Result::and_then; a panic inside the conversion unwinds
\* through both
ResultMap(r, conv) == IF r.kind = "Ok" THEN Convert(conv, r.val) ELSE r

\* the capacity of an absent buffer whatever was passed
capacity_zero(buffer) == W(0)

\* Option<Out<[u8]>>: capacity and pointer handed to the kernel
capacity(buffer) == IF buffer.some THEN buffer.v.len ELSE W(0)

buffer_ptr(buffer) == IF buffer.some THEN buffer.v.ptr ELSE NULL

\* the call issued a second time after a failure
syscall_retrying(nr, a, k) ==
    LET rec == [nr |-> nr, a |-> a, ret |-> k.ret, err |-> k.err]
    IN  [log |-> IF k.ret = MinusOne THEN <<rec, rec>> ELSE <<rec>>,
         res |-> check_syscall(k.ret, IF k.ret = MinusOne THEN k.err ELSE errno)]

\* the syscall! macro: one libc::syscall, then check_syscall on its return.
\* errno is read after the call: the kernel's code on failure, else stale.
syscall(nr, a, k) ==
    [log |-> <<[nr |-> nr, a |-> a, ret |-> k.ret, err |-> k.err]>>,
     res |-> check_syscall(k.ret, IF k.ret = MinusOne THEN k.err ELSE errno)]

\* the keyctl! macro: syscall! on SYS_keyctl with the subcommand first
keyctl(cmd, a, k) == syscall("SYS_keyctl", <<cmd>> \o a, k)

\* the wrapper returns (or unwinds) having issued the syscalls in sc
Return(name, in, sc, res) ==
    /\ op' = name
    /\ input' = in
    /\ syscalls' = sc
    /\ result' = res
    /\ errno' = IF sc # <<>> /\ sc[Len(sc)].ret = MinusOne THEN sc[Len(sc)].err ELSE errno

\* a wrapper whose body is one macro call followed by a conversion
Finish(name, in, s, conv) == Return(name, in, s.log, ResultMap(s.res, conv))

\* what the caller passed, kept for the properties: the strings, the lengths
\* bound for 32-bit kernel fields, the output buffer, the optional identifier
In(strs, lens, buffer, optid) ==
    [strs |-> strs, lens |-> lens, buffer |-> buffer, optid |-> optid]

NoInput == In(<<>>, <<>>, None, None)

----------------------------------------------------------------------------
(* The kernel's side of the read-style calls *)

MaxBuf == 3
MaxPayload == 2

\* a byte of the output buffer the kernel has not written
Uninit == 255

\* a key as the kernel holds it: what describe, read and get-security yield.
\* added remembers the payload the caller gave to add_key for as long as no
\* update, revoke or invalidate has touched the key
Key(payload) ==
    [desc |-> <<100>>, payload |-> payload, label |-> <<108>>, revoked |-> FALSE,
     added |-> None]

Payloads == SeqsUpTo({115}, MaxPayload)

\* output buffers of the caller, all at the one address
KBuffers == {[ptr |-> a, len |-> W(n)] : a \in Addrs, n \in 0..MaxBuf}

KeyData(cmd, key) ==
    CASE cmd = "KEYCTL_DESCRIBE" -> key.desc
      [] cmd = "KEYCTL_READ" -> key.payload
      [] cmd = "KEYCTL_GET_SECURITY" -> key.label

\* the kernel's answer to a read-style keyctl c: the size of the data, also
\* when the buffer is absent or too small; a revoked key is refused
KernelAnswer(c) ==
    LET key == keys[c.a[2]]
    IN  IF key.revoked THEN [ret |-> MinusOne, err |-> EKEYREVOKED]
        ELSE [ret |-> W(Len(KeyData(c.a[1], key))), err |-> 0]

\* the caller's buffer after the call: the data is copied when a buffer was
\* passed and holds it, and nothing is written otherwise
KernelStore(c) ==
    LET key == keys[c.a[2]]
        data == KeyData(c.a[1], key)
    IN  IF ~key.revoked /\ c.a[3] # NULL /\ WLe(W(Len(data)), c.a[4])
        THEN [i \in 1..MaxBuf |-> IF i <= Len(data) THEN data[i] ELSE mem[i]]
        ELSE mem

KAnswers ==
    {[ret |-> W(n), err |-> 0] : n \in 0..MaxBuf} \cup {[ret |-> MinusOne, err |-> EKEYREVOKED]}

KEY_TYPE_USER == <<117, 115, 101, 114>>
TestDescription == <<116, 101, 115, 116>>

\* the serial of the user key "test"; the kernel holds no other user key
TestKey == 5

ENODEV == 19
EDQUOT == 122

\* payloads the caller adds
AddPayloads == SeqsUpTo({115, 101}, MaxPayload)

\* the kernel's answer to the add_key syscall c: the serial of the user key
\* "test" linked into the keyring, created or updated; a revoked key is not
\* updated and the kernel has no further key to give
KernelAddKey(c) ==
    IF c.a[1] # Append(KEY_TYPE_USER, NUL) THEN [ret |-> MinusOne, err |-> ENODEV]
    ELSE IF keys[c.a[5]].revoked THEN [ret |-> MinusOne, err |-> EKEYREVOKED]
    ELSE IF keys[TestKey].revoked THEN [ret |-> MinusOne, err |-> EDQUOT]
    ELSE [ret |-> W(TestKey), err |-> 0]

\* the keys after the add_key syscall c, bytes being the caller's memory at
\* the payload pointer: the kernel copies as many bytes as the length says
KernelAdded(c, bytes) ==
    IF KernelAddKey(c).ret = MinusOne THEN keys
    ELSE [keys EXCEPT ![TestKey].payload = SubSeq(bytes, 1, ToInt(c.a[4])),
                      ![TestKey].added = Some(bytes)]

\* the kernel's answer to KEYCTL_REVOKE c and the keys after it
KernelRevoke(c) ==
    IF keys[c.a[2]].revoked THEN [ret |-> MinusOne, err |-> EKEYREVOKED]
    ELSE [ret |-> Zero, err |-> 0]

KernelRevoked(c) ==
    IF keys[c.a[2]].revoked THEN keys
    ELSE [keys EXCEPT ![c.a[2]].revoked = TRUE, ![c.a[2]].added = None]

KAddAnswers ==
    {[ret |-> W(TestKey), err |-> 0]}
        \cup {[ret |-> MinusOne, err |-> e] : e \in {ENODEV, EKEYREVOKED, EDQUOT}}

KRevokeAnswers == {[ret |-> Zero, err |-> 0], [ret |-> MinusOne, err |-> EKEYREVOKED]}

\* what the caller keeps of its last call: the operation, the key, whether a
\* buffer was passed, the result, and the key as it was then
Prev(o, id, buffered, res, key) ==
    [op |-> o, id |-> id, buffered |-> buffered, result |-> res, key |-> key]

NoPrev == Prev("none", 0, FALSE, Ok("unit"), Key(<<>>))

----------------------------------------------------------------------------
(* The wrappers *)

\* the payload passed with length 0
add_key_empty_payload(type_, description, payload, keyring, k) ==
    LET type_cstr == cstring(type_)
        desc_cstr == cstring(description)
        in == In(<<type_, description>>, <<>>, None, None)
    IN  IF type_cstr.kind = "Panic" THEN Return("add_key", in, <<>>, type_cstr)
        ELSE IF desc_cstr.kind = "Panic" THEN Return("add_key", in, <<>>, desc_cstr)
        ELSE Finish("add_key", in,
                    syscall("SYS_add_key",
                            <<type_cstr.val, desc_cstr.val, payload.ptr, W(0), keyring>>, k),
                    "keyring_serial")

add_key(type_, description, payload, keyring, k) ==
    LET type_cstr == cstring(type_)
        desc_cstr == cstring(description)
        in == In(<<type_, description>>, <<>>, None, None)
    IN  IF type_cstr.kind = "Panic" THEN Return("add_key", in, <<>>, type_cstr)
        ELSE IF desc_cstr.kind = "Panic" THEN Return("add_key", in, <<>>, desc_cstr)
        ELSE Finish("add_key", in,
                    syscall("SYS_add_key",
                            <<type_cstr.val, desc_cstr.val, payload.ptr, payload.len, keyring>>, k),
                    "keyring_serial")

request_key(type_, description, callout_info, keyring, k) ==
    LET type_cstr == cstring(type_)
        desc_cstr == cstring(description)
        callout_cstr == opt_cstring(callout_info)
        in == In(<<type_, description>> \o (IF callout_info.some THEN <<callout_info.v>> ELSE <<>>),
                 <<>>, None, keyring)
    IN  IF type_cstr.kind = "Panic" THEN Return("request_key", in, <<>>, type_cstr)
        ELSE IF desc_cstr.kind = "Panic" THEN Return("request_key", in, <<>>, desc_cstr)
        ELSE IF callout_cstr.kind = "Panic" THEN Return("request_key", in, <<>>, callout_cstr)
        ELSE Finish("request_key", in,
                    syscall("SYS_request_key",
                            <<type_cstr.val, desc_cstr.val, opt_cstring_ptr(callout_cstr.val),
                              opt_key_serial(keyring)>>, k),
                    "keyring_serial")

keyctl_get_keyring_id(id, create, k) ==
    Finish("keyctl_get_keyring_id", NoInput,
           keyctl("KEYCTL_GET_KEYRING_ID", <<id, IF create THEN 1 ELSE 0>>, k),
           "keyring_serial")

keyctl_join_session_keyring(name, k) ==
    LET name_cstr == opt_cstring(name)
        in == In(IF name.some THEN <<name.v>> ELSE <<>>, <<>>, None, None)
    IN  IF name_cstr.kind = "Panic" THEN Return("keyctl_join_session_keyring", in, <<>>, name_cstr)
        ELSE Finish("keyctl_join_session_keyring", in,
                    keyctl("KEYCTL_JOIN_SESSION_KEYRING", <<opt_cstring_ptr(name_cstr.val)>>, k),
                    "keyring_serial")

keyctl_update(id, payload, k) ==
    Finish("keyctl_update", NoInput,
           keyctl("KEYCTL_UPDATE", <<id, payload.ptr, payload.len>>, k), "ignore")

keyctl_revoke(id, k) ==
    Finish("keyctl_revoke", NoInput, keyctl("KEYCTL_REVOKE", <<id>>, k), "ignore")

\* an absent uid or gid is sent as !0, all 32 bits set
keyctl_chown(id, uid, gid, k) ==
    Finish("keyctl_chown", NoInput,
           keyctl("KEYCTL_CHOWN",
                  <<id, IF uid.some THEN uid.v ELSE U32_MAX, IF gid.some THEN gid.v ELSE U32_MAX>>, k),
           "ignore")

keyctl_setperm(id, perm, k) ==
    Finish("keyctl_setperm", NoInput, keyctl("KEYCTL_SETPERM", <<id, perm>>, k), "ignore")

keyctl_describe(id, buffer, k) ==
    Finish("keyctl_describe", In(<<>>, <<>>, buffer, None),
           keyctl("KEYCTL_DESCRIBE", <<id, buffer_ptr(buffer), capacity(buffer)>>, k), "size")

keyctl_clear(id, k) ==
    Finish("keyctl_clear", NoInput, keyctl("KEYCTL_CLEAR", <<id>>, k), "ignore")

keyctl_link(id, ringid, k) ==
    Finish("keyctl_link", NoInput, keyctl("KEYCTL_LINK", <<id, ringid>>, k), "ignore")

keyctl_unlink(id, ringid, k) ==
    Finish("keyctl_unlink", NoInput, keyctl("KEYCTL_UNLINK", <<id, ringid>>, k), "ignore")

keyctl_search(ringid, type_, description, destringid, k) ==
    LET type_cstr == cstring(type_)
        desc_cstr == cstring(description)
        in == In(<<type_, description>>, <<>>, None, destringid)
    IN  IF type_cstr.kind = "Panic" THEN Return("keyctl_search", in, <<>>, type_cstr)
        ELSE IF desc_cstr.kind = "Panic" THEN Return("keyctl_search", in, <<>>, desc_cstr)
        ELSE Finish("keyctl_search", in,
                    keyctl("KEYCTL_SEARCH",
                           <<ringid, type_cstr.val, desc_cstr.val, opt_key_serial(destringid)>>, k),
                    "keyring_serial")

\* the capacity passed reported in place of the size the kernel returned
keyctl_read_reports_capacity(id, buffer, k) ==
    LET s == keyctl("KEYCTL_READ", <<id, buffer_ptr(buffer), capacity(buffer)>>, k)
    IN  Return("keyctl_read", In(<<>>, <<>>, buffer, None), s.log,
               IF s.res.kind = "Ok" THEN Ok(capacity(buffer)) ELSE s.res)

keyctl_read(id, buffer, k) ==
    Finish("keyctl_read", In(<<>>, <<>>, buffer, None),
           keyctl("KEYCTL_READ", <<id, buffer_ptr(buffer), capacity(buffer)>>, k), "size")

keyctl_instantiate(id, payload, ringid, k) ==
    Finish("keyctl_instantiate", In(<<>>, <<>>, None, ringid),
           keyctl("KEYCTL_INSTANTIATE", <<id, payload.ptr, payload.len, opt_key_serial(ringid)>>, k),
           "ignore")

keyctl_negate(id, timeout, ringid, k) ==
    Finish("keyctl_negate", In(<<>>, <<>>, None, ringid),
           keyctl("KEYCTL_NEGATE", <<id, timeout, opt_key_serial(ringid)>>, k), "ignore")

\* the conversion applied to the raw return, without check_syscall
keyctl_set_reqkey_keyring_unchecked(reqkey_defl, k) ==
    Return("keyctl_set_reqkey_keyring", NoInput,
           keyctl("KEYCTL_SET_REQKEY_KEYRING", <<DefaultKeyringCode(reqkey_defl)>>, k).log,
           default_keyring(k.ret))

keyctl_set_reqkey_keyring(reqkey_defl, k) ==
    Finish("keyctl_set_reqkey_keyring", NoInput,
           keyctl("KEYCTL_SET_REQKEY_KEYRING", <<DefaultKeyringCode(reqkey_defl)>>, k),
           "default_keyring")

keyctl_set_timeout(key, timeout, k) ==
    Finish("keyctl_set_timeout", NoInput, keyctl("KEYCTL_SET_TIMEOUT", <<key, timeout>>, k), "ignore")

keyctl_assume_authority(key, k) ==
    Finish("keyctl_assume_authority", In(<<>>, <<>>, None, key),
           keyctl("KEYCTL_ASSUME_AUTHORITY", <<opt_key_serial(key)>>, k), "ignore")

keyctl_get_security(key, buffer, k) ==
    Finish("keyctl_get_security", In(<<>>, <<>>, buffer, None),
           keyctl("KEYCTL_GET_SECURITY", <<key, buffer_ptr(buffer), capacity(buffer)>>, k), "size")

keyctl_reject(id, timeout, error, ringid, k) ==
    Finish("keyctl_reject", In(<<>>, <<>>, None, ringid),
           keyctl("KEYCTL_REJECT", <<id, timeout, error, opt_key_serial(ringid)>>, k), "ignore")

keyctl_invalidate(id, k) ==
    Finish("keyctl_invalidate", NoInput, keyctl("KEYCTL_INVALIDATE", <<id>>, k), "ignore")

keyctl_get_persistent(uid, id, k) ==
    Finish("keyctl_get_persistent", NoInput,
           keyctl("KEYCTL_GET_PERSISTENT", <<uid, id>>, k), "keyring_serial")

keyctl_session_to_parent(k) ==
    Finish("keyctl_session_to_parent", NoInput, keyctl("KEYCTL_SESSION_TO_PARENT", <<>>, k), "ignore")

DhComputeParamsKernel(private, prime, base) ==
    [priv_ |-> private, prime |-> prime, base |-> base]

DhKdfParamsKernel(hashname, otherinfo, otherinfolen) ==
    [hashname |-> hashname, otherinfo |-> otherinfo, otherinfolen |-> otherinfolen,
     spare |-> [i \in 1..8 |-> 0]]

keyctl_dh_compute(private, prime, base, buffer, k) ==
    LET params == DhComputeParamsKernel(private, prime, base)
    IN  Finish("keyctl_dh_compute", In(<<>>, <<>>, buffer, None),
               keyctl("KEYCTL_DH_COMPUTE", <<params, buffer_ptr(buffer), capacity(buffer), NULL>>, k),
               "size")

keyctl_dh_compute_kdf(private, prime, base, hashname, otherinfo, buffer, k) ==
    LET params == DhComputeParamsKernel(private, prime, base)
        hash_cstr == cstring(hashname)
        otherinfolen == safe_len(IF otherinfo.some THEN otherinfo.v.len ELSE W(0))
        in == In(<<hashname>>, <<IF otherinfo.some THEN otherinfo.v.len ELSE W(0)>>, buffer, None)
    IN  IF hash_cstr.kind = "Panic" THEN Return("keyctl_dh_compute_kdf", in, <<>>, hash_cstr)
        ELSE IF otherinfolen.kind = "Err" THEN Return("keyctl_dh_compute_kdf", in, <<>>, otherinfolen)
        ELSE LET kdf_params ==
                     DhKdfParamsKernel(hash_cstr.val,
                                       IF otherinfo.some THEN otherinfo.v.ptr ELSE NULL,
                                       otherinfolen.val)
             IN  Finish("keyctl_dh_compute_kdf", in,
                        keyctl("KEYCTL_DH_COMPUTE",
                               <<params, buffer_ptr(buffer), capacity(buffer), kdf_params>>, k),
                        "size")

AllLinks == [tag |-> "AllLinks"]
ByType(type_, restriction) == [tag |-> "ByType", type_ |-> type_, restriction |-> restriction]
Restrictions == {AllLinks} \cup {ByType(t, r) : t \in Strs, r \in Strs}

keyctl_restrict_keyring(keyring, restriction, k) ==
    IF restriction.tag = "AllLinks"
    THEN Finish("keyctl_restrict_keyring", NoInput,
                keyctl("KEYCTL_RESTRICT_KEYRING", <<keyring, <<>>, <<>> >>, k), "ignore")
    ELSE LET type_cstr == cstring(restriction.type_)
             restriction_cstr == cstring(restriction.restriction)
             in == In(<<restriction.type_, restriction.restriction>>, <<>>, None, None)
         IN  IF type_cstr.kind = "Panic"
             THEN Return("keyctl_restrict_keyring", in, <<>>, type_cstr)
             ELSE IF restriction_cstr.kind = "Panic"
             THEN Return("keyctl_restrict_keyring", in, <<>>, restriction_cstr)
             ELSE Finish("keyctl_restrict_keyring", in,
                         keyctl("KEYCTL_RESTRICT_KEYRING",
                                <<keyring, type_cstr.val, restriction_cstr.val>>, k),
                         "ignore")

PKeyQueryKernel(supported_ops, key_size, max_data_size, max_sig_size, max_enc_size, max_dec_size) ==
    [supported_ops |-> supported_ops, key_size |-> key_size, max_data_size |-> max_data_size,
     max_sig_size |-> max_sig_size, max_enc_size |-> max_enc_size, max_dec_size |-> max_dec_size,
     spare |-> [i \in 1..10 |-> 0]]

zeroed == PKeyQueryKernel(0, 0, 0, 0, 0, 0)

\* From<PKeyQueryKernel> for PKeyQuery: the reserved words are dropped
PKeyQuery(kernel) ==
    [supported_ops |-> kernel.supported_ops, key_size |-> kernel.key_size,
     max_data_size |-> kernel.max_data_size, max_sig_size |-> kernel.max_sig_size,
     max_enc_size |-> kernel.max_enc_size, max_dec_size |-> kernel.max_dec_size]

\* what the kernel may store into the query struct when it does not fail
QueryVals == {zeroed, PKeyQueryKernel(15, 2048, 256, 256, 256, 256)}

\* q is the query struct as the kernel leaves it
keyctl_pkey_query(key, info, k, q) ==
    LET info_cstr == cstring(info)
        in == In(<<info>>, <<>>, None, None)
    IN  IF info_cstr.kind = "Panic" THEN Return("keyctl_pkey_query", in, <<>>, info_cstr)
        ELSE LET s == keyctl("KEYCTL_PKEY_QUERY", <<key, 0, info_cstr.val, "query">>, k)
                 query == IF k.ret = MinusOne THEN zeroed ELSE q
                 res == ResultMap(s.res, "ignore")
             IN  IF res.kind # "Ok" THEN Return("keyctl_pkey_query", in, s.log, res)
                 ELSE Return("keyctl_pkey_query", in, s.log, Ok(PKeyQuery(query)))

PKeyOpParamsKernel(key_id, in_len, out_len, in2_len) ==
    [key_id |-> key_id, in_len |-> in_len, out_len |-> out_len, in2_len |-> in2_len]

\* keyctl_pkey_encrypt, keyctl_pkey_decrypt and keyctl_pkey_sign differ in the
\* subcommand only
pkey_op(name, cmd, key, info, data, buffer, k) ==
    LET in_len == safe_len(data.len)
        out_len == safe_len(buffer.len)
        info_cstr == cstring(info)
        in == In(<<info>>, <<data.len, buffer.len>>, Some(buffer), None)
    IN  IF in_len.kind = "Err" THEN Return(name, in, <<>>, in_len)
        ELSE IF out_len.kind = "Err" THEN Return(name, in, <<>>, out_len)
        ELSE IF info_cstr.kind = "Panic" THEN Return(name, in, <<>>, info_cstr)
        ELSE Finish(name, in,
                    keyctl(cmd, <<PKeyOpParamsKernel(key, in_len.val, out_len.val, W(0)),
                                  info_cstr.val, data.ptr, buffer.ptr>>, k),
                    "size")

keyctl_pkey_encrypt(key, info, data, buffer, k) ==
    pkey_op("keyctl_pkey_encrypt", "KEYCTL_PKEY_ENCRYPT", key, info, data, buffer, k)

keyctl_pkey_decrypt(key, info, data, buffer, k) ==
    pkey_op("keyctl_pkey_decrypt", "KEYCTL_PKEY_DECRYPT", key, info, data, buffer, k)

keyctl_pkey_sign(key, info, data, buffer, k) ==
    pkey_op("keyctl_pkey_sign", "KEYCTL_PKEY_SIGN", key, info, data, buffer, k)

keyctl_pkey_verify(key, info, data, sig, k) ==
    LET in_len == safe_len(data.len)
        in2_len == safe_len(sig.len)
        info_cstr == cstring(info)
        in == In(<<info>>, <<data.len, sig.len>>, None, None)
    IN  IF in_len.kind = "Err" THEN Return("keyctl_pkey_verify", in, <<>>, in_len)
        ELSE IF in2_len.kind = "Err" THEN Return("keyctl_pkey_verify", in, <<>>, in2_len)
        ELSE IF info_cstr.kind = "Panic" THEN Return("keyctl_pkey_verify", in, <<>>, info_cstr)
        ELSE Finish("keyctl_pkey_verify", in,
                    keyctl("KEYCTL_PKEY_VERIFY",
                           <<PKeyOpParamsKernel(key, in_len.val, W(0), in2_len.val),
                             info_cstr.val, data.ptr, sig.ptr>>, k),
                    "|res| res == 0")

----------------------------------------------------------------------------
(* The asymmetric key type's restrictions (keytypes/asymmetric.rs) *)

MaxSerial == 20

\* KeyringSerial, a nonzero i32: the smallest value, the special keyrings,
\* ordinary identifiers, the largest value
KeyringSerials == {-(2^30) - 2^30} \cup (-7..-1) \cup (1..MaxSerial) \cup {2^30 - 1 + 2^30}

\* Key and Keyring: the objects a restriction names, each holding its serial
KeyObjects == {[id |-> s] : s \in KeyringSerials}

\* Key::serial and Keyring::serial
serial(k) == k.id

AsymmetricRestrictions ==
    {[tag |-> "BuiltinTrusted"], [tag |-> "BuiltinAndSecondaryTrusted"], [tag |-> "Chained"]}
        \cup {[tag |-> "Key", key |-> k, chained |-> c] : k \in KeyObjects, c \in BOOLEAN}
        \cup {[tag |-> "Keyring", keyring |-> k, chained |-> c] : k \in KeyObjects, c \in BOOLEAN}

\* a String is written as the sequence of its characters
DigitChars == <<"0", "1", "2", "3", "4", "5", "6", "7", "8", "9">>

\* the decimal digits of |n| for n <= 0, most significant first; worked out
\* on the negative side, where the smallest i32 has no overflow
RECURSIVE Magnitude(_)
Magnitude(n) ==
    LET d == (10 - (n % 10)) % 10
        rest == (n + d) \div 10
    IN  IF rest = 0 THEN <<DigitChars[d + 1]>> ELSE Append(Magnitude(rest), DigitChars[d + 1])

\* Display for KeyringSerial, the "{}" of format!: a minus sign for a negative
\* value, then the decimal digits without padding
Display(n) == IF n < 0 THEN <<"-">> \o Magnitude(n) ELSE Magnitude(-n)

\* the suffix left out whatever the flag says
restriction_str_unchained(id, chained) ==
    <<"k", "e", "y", "_", "o", "r", "_", "k", "e", "y", "r", "i", "n", "g", ":">> \o Display(id)

restriction_str(id, chained) ==
    LET chain_suffix == IF chained THEN <<":", "c", "h", "a", "i", "n">> ELSE <<>>
    IN  <<"k", "e", "y", "_", "o", "r", "_", "k", "e", "y", "r", "i", "n", "g", ":">>
            \o Display(id) \o chain_suffix

restriction(self) ==
    CASE self.tag = "BuiltinTrusted" ->
             <<"b", "u", "i", "l", "t", "i", "n", "_", "t", "r", "u", "s", "t", "e", "d">>
      [] self.tag = "BuiltinAndSecondaryTrusted" ->
             <<"b", "u", "i", "l", "t", "i", "n", "_", "a", "n", "d", "_", "s", "e", "c", "o",
               "n", "d", "a", "r", "y", "_", "t", "r", "u", "s", "t", "e", "d">>
      [] self.tag = "Key" -> restriction_str(serial(self.key), self.chained)
      [] self.tag = "Keyring" -> restriction_str(serial(self.keyring), self.chained)
      [] self.tag = "Chained" ->
             <<"k", "e", "y", "_", "o", "r", "_", "k", "e", "y", "r", "i", "n", "g", ":", "0",
               ":", "c", "h", "a", "i", "n">>

----------------------------------------------------------------------------

\* the caller before its first call
NoCall ==
    /\ op = "none"
    /\ input = NoInput
    /\ syscalls = <<>>
    /\ errno \in {0} \cup Errnos
    /\ result = Ok("unit")

Init ==
    /\ NoCall
    /\ keys = [id \in Serials |-> Key(<<>>)]
    /\ mem = [i \in 1..MaxBuf |-> Uninit]
    /\ prev = NoPrev

\* the caller takes the returned value and is ready for its next call; a
\* panic is not returned from, and errno keeps its value
Resume ==
    /\ op # "none"
    /\ result.kind # "Panic"
    /\ op' = "none"
    /\ input' = NoInput
    /\ syscalls' = <<>>
    /\ result' = Ok("unit")
    /\ UNCHANGED errno
    /\ UNCHANGED kvars

\* the caller is between two calls
Idle == op = "none"

call_add_key ==
    /\ Idle
    /\ UNCHANGED kvars
    /\ \E t \in Strs, d \in Strs, p \in Slices, r \in Serials, k \in KernelOutcomes :
          add_key(t, d, p, r, k)

call_request_key ==
    /\ Idle
    /\ UNCHANGED kvars
    /\ \E t \in Strs, d \in Strs, c \in OptStrs, r \in OptSerials, k \in KernelOutcomes :
          request_key(t, d, c, r, k)

call_keyctl_get_keyring_id ==
    /\ Idle
    /\ UNCHANGED kvars
    /\ \E id \in Serials, create \in BOOLEAN, k \in KernelOutcomes :
          keyctl_get_keyring_id(id, create, k)

call_keyctl_join_session_keyring ==
    /\ Idle
    /\ UNCHANGED kvars
    /\ \E name \in OptStrs, k \in KernelOutcomes : keyctl_join_session_keyring(name, k)

call_keyctl_update ==
    /\ Idle
    /\ UNCHANGED kvars
    /\ \E id \in Serials, p \in Slices, k \in KernelOutcomes : keyctl_update(id, p, k)

call_keyctl_revoke ==
    /\ Idle
    /\ UNCHANGED kvars
    /\ \E id \in Serials, k \in KernelOutcomes : keyctl_revoke(id, k)

call_keyctl_chown ==
    /\ Idle
    /\ UNCHANGED kvars
    /\ \E id \in Serials, uid \in OptUids, gid \in OptUids, k \in KernelOutcomes :
          keyctl_chown(id, uid, gid, k)

call_keyctl_setperm ==
    /\ Idle
    /\ UNCHANGED kvars
    /\ \E id \in Serials, perm \in Perms, k \in KernelOutcomes : keyctl_setperm(id, perm, k)

call_keyctl_describe ==
    /\ Idle
    /\ UNCHANGED kvars
    /\ \E id \in Serials, b \in OptSlices, k \in KernelOutcomes : keyctl_describe(id, b, k)

call_keyctl_clear ==
    /\ Idle
    /\ UNCHANGED kvars
    /\ \E id \in Serials, k \in KernelOutcomes : keyctl_clear(id, k)

call_keyctl_link ==
    /\ Idle
    /\ UNCHANGED kvars
    /\ \E id \in Serials, ringid \in Serials, k \in KernelOutcomes : keyctl_link(id, ringid, k)

call_keyctl_unlink ==
    /\ Idle
    /\ UNCHANGED kvars
    /\ \E id \in Serials, ringid \in Serials, k \in KernelOutcomes : keyctl_unlink(id, ringid, k)

call_keyctl_search ==
    /\ Idle
    /\ UNCHANGED kvars
    /\ \E ringid \in Serials, t \in Strs, d \in Strs, dest \in OptSerials, k \in KernelOutcomes :
          keyctl_search(ringid, t, d, dest, k)

call_keyctl_read ==
    /\ Idle
    /\ UNCHANGED kvars
    /\ \E id \in Serials, b \in OptSlices, k \in KernelOutcomes : keyctl_read(id, b, k)

call_keyctl_instantiate ==
    /\ Idle
    /\ UNCHANGED kvars
    /\ \E id \in Serials, p \in Slices, ringid \in OptSerials, k \in KernelOutcomes :
          keyctl_instantiate(id, p, ringid, k)

call_keyctl_negate ==
    /\ Idle
    /\ UNCHANGED kvars
    /\ \E id \in Serials, t \in Timeouts, ringid \in OptSerials, k \in KernelOutcomes :
          keyctl_negate(id, t, ringid, k)

call_keyctl_set_reqkey_keyring ==
    /\ Idle
    /\ UNCHANGED kvars
    /\ \E d \in DefaultKeyrings, k \in KernelOutcomes : keyctl_set_reqkey_keyring(d, k)

call_keyctl_set_timeout ==
    /\ Idle
    /\ UNCHANGED kvars
    /\ \E key \in Serials, t \in Timeouts, k \in KernelOutcomes : keyctl_set_timeout(key, t, k)

call_keyctl_assume_authority ==
    /\ Idle
    /\ UNCHANGED kvars
    /\ \E key \in OptSerials, k \in KernelOutcomes : keyctl_assume_authority(key, k)

call_keyctl_get_security ==
    /\ Idle
    /\ UNCHANGED kvars
    /\ \E key \in Serials, b \in OptSlices, k \in KernelOutcomes : keyctl_get_security(key, b, k)

call_keyctl_reject ==
    /\ Idle
    /\ UNCHANGED kvars
    /\ \E id \in Serials, t \in Timeouts, e \in Errnos, ringid \in OptSerials,
          k \in KernelOutcomes :
          keyctl_reject(id, t, e, ringid, k)

call_keyctl_invalidate ==
    /\ Idle
    /\ UNCHANGED kvars
    /\ \E id \in Serials, k \in KernelOutcomes : keyctl_invalidate(id, k)

call_keyctl_get_persistent ==
    /\ Idle
    /\ UNCHANGED kvars
    /\ \E uid \in Uids, id \in Serials, k \in KernelOutcomes : keyctl_get_persistent(uid, id, k)

call_keyctl_session_to_parent ==
    /\ Idle
    /\ UNCHANGED kvars
    /\ \E k \in KernelOutcomes : keyctl_session_to_parent(k)

call_keyctl_dh_compute ==
    /\ Idle
    /\ UNCHANGED kvars
    /\ \E private \in Serials, prime \in Serials, base \in Serials, b \in OptSlices,
          k \in KernelOutcomes :
          keyctl_dh_compute(private, prime, base, b, k)

call_keyctl_dh_compute_kdf ==
    /\ Idle
    /\ UNCHANGED kvars
    /\ \E private \in Serials, prime \in Serials, base \in Serials, h \in Strs,
          o \in OptSlices, b \in OptSlices, k \in KernelOutcomes :
          keyctl_dh_compute_kdf(private, prime, base, h, o, b, k)

call_keyctl_restrict_keyring ==
    /\ Idle
    /\ UNCHANGED kvars
    /\ \E keyring \in Serials, r \in Restrictions, k \in KernelOutcomes :
          keyctl_restrict_keyring(keyring, r, k)

call_keyctl_pkey_query ==
    /\ Idle
    /\ UNCHANGED kvars
    /\ \E key \in Serials, info \in Strs, k \in KernelOutcomes, q \in QueryVals :
          keyctl_pkey_query(key, info, k, q)

call_keyctl_pkey_encrypt ==
    /\ Idle
    /\ UNCHANGED kvars
    /\ \E key \in Serials, info \in Strs, data \in Slices, b \in Slices, k \in KernelOutcomes :
          keyctl_pkey_encrypt(key, info, data, b, k)

call_keyctl_pkey_decrypt ==
    /\ Idle
    /\ UNCHANGED kvars
    /\ \E key \in Serials, info \in Strs, data \in Slices, b \in Slices, k \in KernelOutcomes :
          keyctl_pkey_decrypt(key, info, data, b, k)

call_keyctl_pkey_sign ==
    /\ Idle
    /\ UNCHANGED kvars
    /\ \E key \in Serials, info \in Strs, data \in Slices, b \in Slices, k \in KernelOutcomes :
          keyctl_pkey_sign(key, info, data, b, k)

call_keyctl_pkey_verify ==
    /\ Idle
    /\ UNCHANGED kvars
    /\ \E key \in Serials, info \in Strs, data \in Slices, sig \in Slices, k \in KernelOutcomes :
          keyctl_pkey_verify(key, info, data, sig, k)

Next ==
    \/ Resume
    \/ call_add_key
    \/ call_request_key
    \/ call_keyctl_get_keyring_id
    \/ call_keyctl_join_session_keyring
    \/ call_keyctl_update
    \/ call_keyctl_revoke
    \/ call_keyctl_chown
    \/ call_keyctl_setperm
    \/ call_keyctl_describe
    \/ call_keyctl_clear
    \/ call_keyctl_link
    \/ call_keyctl_unlink
    \/ call_keyctl_search
    \/ call_keyctl_read
    \/ call_keyctl_instantiate
    \/ call_keyctl_negate
    \/ call_keyctl_set_reqkey_keyring
    \/ call_keyctl_set_timeout
    \/ call_keyctl_assume_authority
    \/ call_keyctl_get_security
    \/ call_keyctl_reject
    \/ call_keyctl_invalidate
    \/ call_keyctl_get_persistent
    \/ call_keyctl_session_to_parent
    \/ call_keyctl_dh_compute
    \/ call_keyctl_dh_compute_kdf
    \/ call_keyctl_restrict_keyring
    \/ call_keyctl_pkey_query
    \/ call_keyctl_pkey_encrypt
    \/ call_keyctl_pkey_decrypt
    \/ call_keyctl_pkey_sign
    \/ call_keyctl_pkey_verify

Spec == Init /\ [][Next]_vars

----------------------------------------------------------------------------
(* The read-style wrappers against the kernel's keys *)

KInit ==
    /\ NoCall
    /\ errno = 0
    /\ keys \in [Serials -> {Key(p) : p \in Payloads}]
    /\ mem = [i \in 1..MaxBuf |-> Uninit]
    /\ prev = NoPrev

\* the kernel answers the syscall the wrapper issued and fills the buffer
Answered(k) ==
    /\ k = KernelAnswer(syscalls'[1])
    /\ mem' = KernelStore(syscalls'[1])
    /\ UNCHANGED <<keys, prev>>

k_describe ==
    /\ Idle
    /\ \E id \in Serials, b \in Opt(KBuffers), k \in KAnswers :
          keyctl_describe(id, b, k) /\ Answered(k)

k_read ==
    /\ Idle
    /\ \E id \in Serials, b \in Opt(KBuffers), k \in KAnswers :
          keyctl_read(id, b, k) /\ Answered(k)

k_get_security ==
    /\ Idle
    /\ \E id \in Serials, b \in Opt(KBuffers), k \in KAnswers :
          keyctl_get_security(id, b, k) /\ Answered(k)

k_add_key ==
    /\ Idle
    /\ \E p \in AddPayloads, a \in Addrs, k \in KAddAnswers :
          /\ add_key(KEY_TYPE_USER, TestDescription, [ptr |-> a, len |-> W(Len(p))],
                     KEY_SPEC_SESSION_KEYRING, k)
          /\ k = KernelAddKey(syscalls'[1])
          /\ keys' = KernelAdded(syscalls'[1], p)
    /\ UNCHANGED <<mem, prev>>

k_revoke ==
    /\ Idle
    /\ \E id \in Serials, k \in KRevokeAnswers :
          /\ keyctl_revoke(id, k)
          /\ k = KernelRevoke(syscalls'[1])
          /\ keys' = KernelRevoked(syscalls'[1])
    /\ UNCHANGED <<mem, prev>>

\* the key a finished call was about: the one add_key returned, else the one
\* passed
CallId ==
    IF op = "add_key" THEN (IF result.kind = "Ok" THEN result.val ELSE 0)
    ELSE syscalls[1].a[2]

\* the caller takes the returned value, remembers the call and lets go of the
\* buffer; the next call gets a fresh one
k_resume ==
    /\ ~Idle
    /\ result.kind # "Panic"
    /\ prev' = Prev(op, CallId, input.buffer.some, result,
                    IF CallId \in Serials THEN keys[CallId] ELSE Key(<<>>))
    /\ op' = "none"
    /\ input' = NoInput
    /\ syscalls' = <<>>
    /\ result' = Ok("unit")
    /\ mem' = [i \in 1..MaxBuf |-> Uninit]
    /\ UNCHANGED <<errno, keys>>

\* between two calls of the caller another process updates or revokes a key
k_key_changed ==
    /\ Idle
    /\ \E id \in Serials :
          \/ \E p \in Payloads \ {keys[id].payload} :
                keys' = [keys EXCEPT ![id].payload = p, ![id].added = None]
          \/ /\ ~keys[id].revoked
             /\ keys' = [keys EXCEPT ![id].revoked = TRUE, ![id].added = None]
    /\ UNCHANGED <<cvars, mem, prev>>

KNext ==
    \/ k_add_key
    \/ k_revoke
    \/ k_describe
    \/ k_read
    \/ k_get_security
    \/ k_resume
    \/ k_key_changed

KSpec == KInit /\ [][KNext]_vars

----------------------------------------------------------------------------
(* A caller asking restrictions for their strings *)

RInit ==
    /\ NoCall
    /\ errno = 0
    /\ keys = [id \in Serials |-> Key(<<>>)]
    /\ mem = [i \in 1..MaxBuf |-> Uninit]
    /\ prev = NoPrev

\* restriction() cannot fail and makes no syscall: the string is handed back
call_restriction ==
    /\ Idle
    /\ UNCHANGED kvars
    /\ \E self \in AsymmetricRestrictions : Return("restriction", self, <<>>, Ok(restriction(self)))

RNext ==
    \/ Resume
    \/ call_restriction

RSpec == RInit /\ [][RNext]_vars

----------------------------------------------------------------------------
(* Properties *)

Called == op # "none"

Issued == Len(syscalls)

SomeNul == \E i \in 1..Len(input.strs) : HasNul(input.strs[i])

SomeOversize == \E i \in 1..Len(input.lens) : ~WLe(input.lens[i], U32_MAX)

IdOps == {"add_key", "request_key", "keyctl_get_keyring_id", "keyctl_join_session_keyring",
          "keyctl_search", "keyctl_get_persistent"}

SizeOps == {"keyctl_describe", "keyctl_read", "keyctl_get_security", "keyctl_dh_compute",
            "keyctl_dh_compute_kdf", "keyctl_pkey_encrypt", "keyctl_pkey_decrypt",
            "keyctl_pkey_sign"}

ReadOps == {"keyctl_describe", "keyctl_read", "keyctl_get_security", "keyctl_dh_compute",
            "keyctl_dh_compute_kdf"}

LenOps == {"keyctl_dh_compute_kdf", "keyctl_pkey_encrypt", "keyctl_pkey_decrypt",
           "keyctl_pkey_sign", "keyctl_pkey_verify"}

\* C1: a syscall that returned -1 makes the wrapper return Err with exactly
\* the errno the kernel set for it; a syscall that returned anything else
\* never leads to an Err read from errno.
C1_ErrnoUnmodified ==
    Called =>
        \A i \in 1..Issued :
            /\ syscalls[i].ret = MinusOne =>
                   /\ result = Err(syscalls[i].err, "errno")
                   /\ errno = syscalls[i].err
            /\ syscalls[i].ret # MinusOne => ~(result.kind = "Err" /\ result.src = "errno")

C1_Witness ==
    /\ op = "keyctl_read"
    /\ Issued = 1
    /\ syscalls[1].ret = MinusOne
    /\ syscalls[1].err = EKEYREVOKED
    /\ result = Err(EKEYREVOKED, "errno")

\* C2: a call given a string with an embedded NUL issues no syscall,
\* whatever its other arguments are.
C2_NulNoSyscall == (Called /\ SomeNul) => Issued = 0

C2_Witness ==
    /\ op = "add_key"
    /\ ~HasNul(input.strs[1])
    /\ HasNul(input.strs[2])
    /\ Issued = 0

\* C3: a string with an embedded NUL makes the wrapper return an error value
\* to its caller, without panicking.
C3_NulIsError == (Called /\ SomeNul) => result.kind = "Err"

\* C4: in the five calls that fill a 32-bit kernel length field, a length
\* above 2^32-1 gives Err(EINVAL) and no syscall, whatever the other
\* arguments are.
C4_OversizeIsEinval ==
    (op \in LenOps /\ SomeOversize) => (result = Err(EINVAL, "local") /\ Issued = 0)

UnknownDefaultReturned ==
    /\ op = "keyctl_set_reqkey_keyring"
    /\ Issued = 1
    /\ syscalls[1].ret # MinusOne
    /\ \A d \in DefaultKeyrings : W(DefaultKeyringCode(d)) # syscalls[1].ret

\* C5 as stated: a successful return that is no default-keyring code takes
\* the fatal path, giving neither a selector nor an error value.
C5_UnknownIsFatal == UnknownDefaultReturned => result.kind = "Panic"

\* C5 as amended: a successful return that is no default-keyring code never
\* gives a selector; the wrapper returns the locally made Err(EINVAL) to its
\* caller and does not panic.
C5_UnknownIsEinval == UnknownDefaultReturned => result = Err(EINVAL, "local")

C5_Witness ==
    /\ UnknownDefaultReturned
    /\ syscalls[1].ret = W(7)
    /\ result = Err(EINVAL, "local")

\* C6: in the identifier-returning and the size-returning wrappers a
\* successful return that the result type cannot hold (an identifier outside
\* the signed 32-bit range or zero, a negative size) ends in a panic, never in
\* Ok or Err; every identifier delivered as Ok is nonzero and equals the
\* kernel's return value.
C6_UnrepresentablePanics ==
    (Called /\ Issued = 1 /\ syscalls[1].ret # MinusOne) =>
        LET ret == syscalls[1].ret IN
        /\ op \in IdOps =>
               IF WLe(I32_MIN, ret) /\ WLe(ret, I32_MAX) /\ ret # Zero
               THEN result.kind = "Ok" /\ result.val # 0 /\ W(result.val) = ret
               ELSE result.kind = "Panic"
        /\ op \in SizeOps =>
               IF WLe(Zero, ret)
               THEN result.kind = "Ok" /\ result.val = ret
               ELSE result.kind = "Panic"

C6_Witness ==
    /\ op = "add_key"
    /\ Issued = 1
    /\ syscalls[1].ret = TwoPow31
    /\ result.kind = "Panic"

\* C7: a read-style call passes the kernel a null pointer and capacity 0 when
\* it has no buffer, the buffer's address and exact length when it has one,
\* and its Ok value is the size the kernel returned, also above the capacity.
C7_BufferPassing ==
    (op \in ReadOps /\ Issued = 1) =>
        LET c == syscalls[1] IN
        /\ ~input.buffer.some => (c.a[3] = NULL /\ c.a[4] = W(0))
        /\ input.buffer.some => (c.a[3] = input.buffer.v.ptr /\ c.a[4] = input.buffer.v.len)
        /\ result.kind = "Ok" => result.val = c.ret

C7_Witness ==
    /\ op = "keyctl_read"
    /\ Issued = 1
    /\ input.buffer.some
    /\ input.buffer.v.len = W(3)
    /\ syscalls[1].a[3] = input.buffer.v.ptr
    /\ syscalls[1].ret = W(7)
    /\ result = Ok(W(7))

\* C9: a wrapper invocation issues at most one syscall, exactly one when the
\* local validation of its arguments passes and none otherwise; a failed
\* syscall is not issued again.
C9_AtMostOneSyscall ==
    Called =>
        /\ Issued <= 1
        /\ Issued = 1 <=> (~SomeNul /\ ~SomeOversize)

C9_Witness ==
    /\ op = "keyctl_pkey_query"
    /\ Issued = 1
    /\ syscalls[1].ret = MinusOne
    /\ result.kind = "Err"

ProbeOps == {"keyctl_describe", "keyctl_read", "keyctl_get_security"}

\* the call just made follows a successful call without buffer of the same
\* operation on the same key, the key is as it was, and the buffer now passed
\* holds the size that call reported
FollowsProbe ==
    /\ prev.op = op
    /\ prev.id = syscalls[1].a[2]
    /\ ~prev.buffered
    /\ prev.result.kind = "Ok"
    /\ prev.key = keys[prev.id]
    /\ input.buffer.some
    /\ WLe(prev.result.val, input.buffer.v.len)

\* C8: describe, read and get-security without a buffer report a size n >= 0
\* and write to no buffer; the next call on the same unchanged key with a
\* buffer of capacity >= n succeeds and reports the same n.
C8_ProbeThenRead ==
    [][(Idle /\ op' \in ProbeOps) =>
          /\ ~input'.buffer.some =>
                 /\ mem' = mem
                 /\ result'.kind = "Ok" => WLe(Zero, result'.val)
          /\ FollowsProbe' => result' = Ok(prev.result.val)]_vars

C8_Witness ==
    /\ op = "keyctl_read"
    /\ FollowsProbe
    /\ prev.result.val = W(2)
    /\ input.buffer.v.len = W(3)
    /\ result = Ok(W(2))
    /\ mem = <<115, 115, Uninit>>

\* C11: while no update, revoke or invalidate has touched the key add_key
\* returned for payload P, keyctl_read of it with a buffer that holds P
\* returns len(P) and leaves exactly the bytes of P in the buffer; keyctl_read
\* of a key the caller has just revoked returns the key-revoked error.
C11_AddReadRevoke ==
    (op = "keyctl_read" /\ Issued = 1) =>
        LET id == syscalls[1].a[2]
            key == keys[id]
        IN  /\ (key.added.some /\ input.buffer.some
                    /\ WLe(W(Len(key.added.v)), input.buffer.v.len)) =>
                   /\ result = Ok(W(Len(key.added.v)))
                   /\ \A i \in 1..Len(key.added.v) : mem[i] = key.added.v[i]
            /\ (prev.op = "keyctl_revoke" /\ prev.id = id /\ prev.result.kind = "Ok") =>
                   result = Err(EKEYREVOKED, "errno")

C11_Witness ==
    /\ op = "keyctl_read"
    /\ Issued = 1
    /\ syscalls[1].a[2] = TestKey
    /\ keys[TestKey].added = Some(<<115, 101>>)
    /\ input.buffer.some
    /\ input.buffer.v.len = W(3)
    /\ result = Ok(W(2))
    /\ mem = <<115, 101, Uninit>>

\* the constants table by subject class: the shift of the class's field, its
\* six bits in the order VIEW, READ, WRITE, SEARCH, LINK, SETATTR, its ALL
PermClasses ==
    <<[shift |-> 24, all |-> KEY_POS_ALL,
       bits |-> <<KEY_POS_VIEW, KEY_POS_READ, KEY_POS_WRITE, KEY_POS_SEARCH, KEY_POS_LINK,
                  KEY_POS_SETATTR>>],
      [shift |-> 16, all |-> KEY_USR_ALL,
       bits |-> <<KEY_USR_VIEW, KEY_USR_READ, KEY_USR_WRITE, KEY_USR_SEARCH, KEY_USR_LINK,
                  KEY_USR_SETATTR>>],
      [shift |-> 8, all |-> KEY_GRP_ALL,
       bits |-> <<KEY_GRP_VIEW, KEY_GRP_READ, KEY_GRP_WRITE, KEY_GRP_SEARCH, KEY_GRP_LINK,
                  KEY_GRP_SETATTR>>],
      [shift |-> 0, all |-> KEY_OTH_ALL,
       bits |-> <<KEY_OTH_VIEW, KEY_OTH_READ, KEY_OTH_WRITE, KEY_OTH_SEARCH, KEY_OTH_LINK,
                  KEY_OTH_SETATTR>>]>>

RECURSIVE BitOr(_, _)
BitOr(a, b) ==
    IF a = 0 THEN b
    ELSE IF b = 0 THEN a
    ELSE (IF a % 2 = 1 \/ b % 2 = 1 THEN 1 ELSE 0) + 2 * BitOr(a \div 2, b \div 2)

RECURSIVE BitAnd(_, _)
BitAnd(a, b) ==
    IF a = 0 \/ b = 0 THEN 0
    ELSE (IF a % 2 = 1 /\ b % 2 = 1 THEN 1 ELSE 0) + 2 * BitAnd(a \div 2, b \div 2)

\* the six bits of a mask that start at the shift
PermField(mask, shift) == (mask \div 2^shift) % 64

\* C12: the four subject classes occupy pairwise disjoint 6-bit fields of the
\* 32-bit mask at shifts 24, 16, 8 and 0; in each class VIEW, READ, WRITE,
\* SEARCH, LINK, SETATTR are the bits 0..5 of the field in that order; each
\* class's ALL is the bitwise OR of its six bits; a mask built from the table
\* and passed to keyctl_setperm is made of its four fields.
C12_PermissionLayout ==
    /\ \A c \in 1..4 :
           LET cl == PermClasses[c] IN
           /\ \A i \in 0..5 : cl.bits[i + 1] = 2^(cl.shift + i)
           /\ cl.all = BitOr(cl.bits[1], BitOr(cl.bits[2], BitOr(cl.bits[3],
                          BitOr(cl.bits[4], BitOr(cl.bits[5], cl.bits[6])))))
           /\ PermField(cl.all, cl.shift) * 2^cl.shift = cl.all
           /\ cl.all >= 0 /\ cl.all \div 2^30 < 4
    /\ \A c, e \in 1..4 : c # e => BitAnd(PermClasses[c].all, PermClasses[e].all) = 0
    /\ (op = "keyctl_setperm" /\ Issued = 1) =>
           LET mask == syscalls[1].a[3]
               part(c) == PermField(mask, PermClasses[c].shift) * 2^PermClasses[c].shift
           IN  /\ mask = part(1) + part(2) + part(3) + part(4)
               /\ \A c \in 1..4 : BitAnd(part(c), PermClasses[c].all) = part(c)

C12_Witness ==
    /\ op = "keyctl_setperm"
    /\ Issued = 1
    /\ syscalls[1].a[3] = KEY_POS_ALL
    /\ PermField(syscalls[1].a[3], 24) = 63
    /\ \A c \in 2..4 : PermField(syscalls[1].a[3], PermClasses[c].shift) = 0

\* where each call taking an optional identifier puts it among the
\* arguments of its syscall
OptIdArg ==
    [request_key |-> 4, keyctl_search |-> 5, keyctl_instantiate |-> 5, keyctl_negate |-> 4,
     keyctl_reject |-> 5, keyctl_assume_authority |-> 2]

\* C10: the kernel receives 0 for an absent optional identifier and the
\* identifier's own nonzero value for a present one.
C10_OptionalIdentifier ==
    (op \in DOMAIN OptIdArg /\ Issued = 1) =>
        LET v == syscalls[1].a[OptIdArg[op]] IN
        /\ ~input.optid.some => v = 0
        /\ input.optid.some => (v = input.optid.v /\ v # 0)

C10_Witness ==
    /\ op = "keyctl_search"
    /\ Issued = 1
    /\ input.optid = Some(5)
    /\ syscalls[1].a[5] = 5

\* C13: keyctl_set_reqkey_keyring never returns Ok(no-change): a kernel return
\* of -1, the code of the no-change selector, is always reported as the error
\* read from errno, and every Ok result is a selector with code 0..6.
C13_NoChangeNeverOk ==
    (op = "keyctl_set_reqkey_keyring" /\ Issued = 1) =>
        /\ syscalls[1].ret = MinusOne => result = Err(syscalls[1].err, "errno")
        /\ result.kind = "Ok" =>
               /\ result.val \in DefaultKeyrings \ {"NoChange"}
               /\ DefaultKeyringCode(result.val) \in 0..6
               /\ W(DefaultKeyringCode(result.val)) = syscalls[1].ret

C13_Witness ==
    /\ op = "keyctl_set_reqkey_keyring"
    /\ Issued = 1
    /\ syscalls[1].a[2] = DefaultKeyringCode("NoChange")
    /\ syscalls[1].ret = MinusOne
    /\ result = Err(EKEYREVOKED, "errno")

\* the wrappers that end in ignore
UnitOps == {"keyctl_update", "keyctl_revoke", "keyctl_chown", "keyctl_setperm",
            "keyctl_clear", "keyctl_link", "keyctl_unlink", "keyctl_instantiate",
            "keyctl_negate", "keyctl_set_timeout", "keyctl_assume_authority",
            "keyctl_reject", "keyctl_invalidate", "keyctl_session_to_parent",
            "keyctl_restrict_keyring"}

\* C14: a unit-returning wrapper, and the syscall step of keyctl_pkey_query,
\* gives Ok only when the kernel returned exactly 0 and panics on a return
\* that is neither -1 nor 0; keyctl_pkey_verify gives Ok(true) iff the kernel
\* returned 0 and Ok(false) for any other return but -1.
C14_UnitOnlyOnZero ==
    (Called /\ Issued = 1) =>
        LET ret == syscalls[1].ret IN
        /\ op \in UnitOps =>
               /\ result.kind = "Ok" => (ret = Zero /\ result.val = "unit")
               /\ ret = Zero => result.kind = "Ok"
               /\ ret \notin {MinusOne, Zero} => result = Panic("assert_eq")
        /\ op = "keyctl_pkey_query" =>
               /\ result.kind = "Ok" => ret = Zero
               /\ ret = Zero => result.kind = "Ok"
               /\ ret \notin {MinusOne, Zero} => result = Panic("assert_eq")
        /\ op = "keyctl_pkey_verify" =>
               /\ ret # MinusOne => (result.kind = "Ok" /\ result.val = (ret = Zero))
               /\ result.kind = "Ok" => (ret # MinusOne /\ (result.val <=> ret = Zero))

C14_Witness ==
    /\ op = "keyctl_revoke"
    /\ Issued = 1
    /\ syscalls[1].ret = W(1)
    /\ result = Panic("assert_eq")

C14_VerifyWitness ==
    /\ op = "keyctl_pkey_verify"
    /\ Issued = 1
    /\ syscalls[1].ret = W(5)
    /\ result.kind = "Ok"
    /\ result.val = FALSE

KeyOrKeyringPrefix ==
    <<"k", "e", "y", "_", "o", "r", "_", "k", "e", "y", "r", "i", "n", "g", ":">>

ChainSuffix == <<":", "c", "h", "a", "i", "n">>

EndsWith(s, t) == Len(s) >= Len(t) /\ SubSeq(s, Len(s) - Len(t) + 1, Len(s)) = t

\* digits without a leading zero, standing for a nonzero number
IsDigits(s) ==
    /\ s # <<>>
    /\ \A i \in 1..Len(s) : \E d \in 1..10 : DigitChars[d] = s[i]
    /\ s[1] # "0"

IsDecimal(s) == IsDigits(s) \/ (s # <<>> /\ s[1] = "-" /\ IsDigits(Tail(s)))

\* minus the number the digits s stand for
RECURSIVE NegValue(_)
NegValue(s) ==
    IF s = <<>> THEN 0
    ELSE NegValue(SubSeq(s, 1, Len(s) - 1)) * 10
             - ((CHOOSE d \in 1..10 : DigitChars[d] = s[Len(s)]) - 1)

\* the number a decimal string stands for
Parsed(s) == IF s[1] = "-" THEN NegValue(Tail(s)) ELSE -NegValue(s)

\* the same restriction naming a keyring in place of a key, or a key in place
\* of a keyring
Twin(self) ==
    IF self.tag = "Key" THEN [tag |-> "Keyring", keyring |-> self.key, chained |-> self.chained]
    ELSE [tag |-> "Key", key |-> self.keyring, chained |-> self.chained]

\* C15: restriction() gives "builtin_trusted", "builtin_and_secondary_trusted"
\* and "key_or_keyring:0:chain" for the three fixed restrictions and, for a
\* Key or Keyring restriction, "key_or_keyring:" followed by the serial in
\* decimal and by ":chain" exactly when chained is set; a Key and a Keyring
\* restriction with the same serial and flag give the same string, and none
\* gives the string of Chained.
C15_RestrictionString ==
    op = "restriction" =>
        LET self == input
            s == result.val
        IN  /\ result.kind = "Ok"
            /\ syscalls = <<>>
            /\ self.tag = "BuiltinTrusted" =>
                   s = <<"b", "u", "i", "l", "t", "i", "n", "_", "t", "r", "u", "s", "t", "e", "d">>
            /\ self.tag = "BuiltinAndSecondaryTrusted" =>
                   s = <<"b", "u", "i", "l", "t", "i", "n", "_", "a", "n", "d", "_", "s", "e",
                         "c", "o", "n", "d", "a", "r", "y", "_", "t", "r", "u", "s", "t", "e", "d">>
            /\ self.tag = "Chained" => s = KeyOrKeyringPrefix \o <<"0">> \o ChainSuffix
            /\ self.tag \in {"Key", "Keyring"} =>
                   LET id == IF self.tag = "Key" THEN self.key.id ELSE self.keyring.id
                       chained == EndsWith(s, ChainSuffix)
                       body == SubSeq(s, Len(KeyOrKeyringPrefix) + 1,
                                      Len(s) - (IF chained THEN Len(ChainSuffix) ELSE 0))
                   IN  /\ SubSeq(s, 1, Len(KeyOrKeyringPrefix)) = KeyOrKeyringPrefix
                       /\ IsDecimal(body)
                       /\ Parsed(body) = id
                       /\ chained <=> self.chained
                       /\ s = restriction(Twin(self))
                       /\ s # restriction([tag |-> "Chained"])

C15_Witness ==
    /\ op = "restriction"
    /\ input = [tag |-> "Keyring", keyring |-> [id |-> -(2^30) - 2^30], chained |-> TRUE]
    /\ result.val = <<"k", "e", "y", "_", "o", "r", "_", "k", "e", "y", "r", "i", "n", "g", ":",
                      "-", "2", "1", "4", "7", "4", "8", "3", "6", "4", "8",
                      ":", "c", "h", "a", "i", "n">>

====
